---- MODULE Spec2Model ----
(***************************************************************************)
(* Model of run_simulation_all.py: the command line driver (main), the     *)
(* suite loop (TestSuite), the per-configuration loop (ConfigurationTest)  *)
(* and the compile / execute / classify cycle of one module (ModuleTest).  *)
(* External processes, the wall clock and the file system are inputs: the  *)
(* model draws their outcomes with \E.  Durations are not modelled.        *)
(***************************************************************************)
EXTENDS Integers, Sequences, FiniteSets, TLC

-----------------------------------------------------------------------------
(* Bounds *)

MaxWidths == 2
MaxModules == 2
MaxRuns == 2
MaxCount == 10

-----------------------------------------------------------------------------
(* Text: command line tokens, dictionary keys and log content are          *)
(* sequences of characters (or of words, for the log).                     *)

Digits == <<"0", "1", "2", "3", "4", "5", "6", "7", "8", "9">>

DigitChars == {Digits[i] : i \in 1..10}

DigitValue(c) == (CHOOSE i \in 1..10 : Digits[i] = c) - 1

\* the text of an integer without its sign
Unsigned(tok) == IF tok # <<>> /\ Head(tok) \in {"-", "+"} THEN Tail(tok) ELSE tok

\* int(text) raises ValueError unless the text is an optional sign and digits
\* (blanks around the number and underscores between digits, which int() also
\* takes, are not in the alphabet of the entries tried)
IsIntLiteral(tok) ==
    /\ Unsigned(tok) # <<>>
    /\ \A i \in 1..Len(Unsigned(tok)) : Unsigned(tok)[i] \in DigitChars

RECURSIVE DigitsValue(_)
DigitsValue(ds) ==
    IF ds = <<>> THEN 0
    ELSE 10 * DigitsValue(SubSeq(ds, 1, Len(ds) - 1)) + DigitValue(ds[Len(ds)])

\* int(text) for a text that IsIntLiteral accepts
ParseInt(tok) ==
    IF tok # <<>> /\ Head(tok) = "-" THEN 0 - DigitsValue(Unsigned(tok))
    ELSE DigitsValue(Unsigned(tok))

\* [int(w) for w in text.split(",")]: the tokens are the pieces between commas
ParseList(toks) == [i \in 1..Len(toks) |-> ParseInt(toks[i])]

ListIsValid(toks) == \A i \in 1..Len(toks) : IsIntLiteral(toks[i])

RECURSIVE NatToStr(_)
NatToStr(n) ==
    IF n < 10 THEN <<Digits[n + 1]>>
    ELSE NatToStr(n \div 10) \o <<Digits[(n % 10) + 1]>>

\* f"{n}" for an int
IntToStr(n) == IF n < 0 THEN <<"-">> \o NatToStr(0 - n) ELSE NatToStr(n)

\* f"{width}_{pipe_stages}"
ConfigKey(width, pipe) == IntToStr(width) \o <<"_">> \o IntToStr(pipe)

Marker == <<"TEST", "PASSED">>

\* the Python "in" operator on text: needle occurs as a contiguous piece
Contains(text, needle) ==
    \E i \in 0..(Len(text) - Len(needle)) :
        SubSeq(text, i + 1, i + Len(needle)) = needle

-----------------------------------------------------------------------------
(* Inputs *)

WidthTokens == {<<"8">>, <<"x">>}
ModuleArgs == (0 - 1)..MaxModules

SeqsUpTo(S, n) == UNION {[1..k -> S] : k \in 1..n}

\* the --pipe-stages texts tried: one depth, two depths, a repeated depth, and
\* texts with an entry that is empty or not a number
PipeArgs ==
    {<<(<<"2">>)>>, <<(<<"2">>), (<<"3">>)>>, <<(<<"2">>), (<<"2">>)>>,
     <<(<<>>)>>, <<(<<"2">>), (<<"x">>)>>}

ArgvSet ==
    [widths : SeqsUpTo(WidthTokens, MaxWidths),
     pipe_stages : PipeArgs,
     modules : ModuleArgs]

CompileOutputs == {<<>>, <<"TEST">>}
ExecOutputs == {<<>>, <<"PASSED">>, <<"TEST", "PASSED">>}
ReturnCodes == {0, 1}

NoConfig == [width |-> 0, pipe_stages |-> 0, total_modules |-> 0, next_id |-> 1,
             passed |-> 0, failed |-> 0, module_tests |-> <<>>]

NoAlias == [kind |-> "absent", target |-> 0]

NoPrev == [log_dir |-> 0, pc |-> "none"]

InitialAliases ==
    {NoAlias,
     [kind |-> "file", target |-> 0],
     [kind |-> "dir", target |-> 0],
     [kind |-> "link", target |-> 0]}

-----------------------------------------------------------------------------
VARIABLES
    pc,             \* position of the running process
    argv,           \* the command line of the running process
    exit_status,    \* process exit status, -1 while running
    widths, pipe_stages, total_modules,      \* TestSuite fields
    log_dir,        \* TestSuite.log_dir: the timestamp of the output root
    config_results, total_tests, total_passed, total_failed,
    wi, pj,         \* positions of the two for loops of TestSuite.run
    config,         \* the ConfigurationTest being run
    steps,          \* external steps attempted by the current ModuleTest
    compile_rc, sim_rc,   \* exit codes seen by the current ModuleTest
    success,        \* value returned by run_test
    log,            \* content of the current module's log file
    config_runs,    \* configuration runs of this process, in start order
    toolchain_calls, \* external processes launched by this process
    reports,        \* configuration directories whose report.html this process wrote
    dashboard,      \* heat map of the dashboard.html this process wrote
    warned,         \* the alias warning was printed
    returned,       \* sums of the (passed, failed) values config.run() returned
    clock,          \* the wall clock second in which the process constructs TestSuite
    roots,          \* output roots that exist on disk
    alias,          \* the latest_results entry of the working directory
    runNo,          \* number of the process invocation
    prev            \* how the previous invocation ended

suiteVars == <<widths, pipe_stages, total_modules, log_dir, config_results,
               total_tests, total_passed, total_failed, wi, pj>>
moduleVars == <<steps, compile_rc, sim_rc, success, log>>
fsVars == <<clock, roots, alias>>
outVars == <<reports, dashboard, warned, returned>>
runVars == <<runNo, prev, argv>>

vars == <<pc, exit_status, suiteVars, config, moduleVars, config_runs,
          toolchain_calls, outVars, fsVars, runVars>>

NoDashboard == <<>>

\* the state of a process that has just been started
Fresh(a) ==
    /\ pc = "main"
    /\ argv = a
    /\ exit_status = 0 - 1
    /\ widths = <<>> /\ pipe_stages = <<>> /\ total_modules = 0
    /\ log_dir = 0
    /\ config_results = <<>>
    /\ total_tests = 0 /\ total_passed = 0 /\ total_failed = 0
    /\ wi = 1 /\ pj = 1
    /\ config = NoConfig
    /\ steps = <<>> /\ compile_rc = 0 /\ sim_rc = 0 /\ success = FALSE
    /\ log = <<>>
    /\ config_runs = <<>>
    /\ toolchain_calls = 0
    /\ reports = {} /\ dashboard = NoDashboard /\ warned = FALSE
    /\ returned = [passed |-> 0, failed |-> 0]

Init ==
    /\ \E a \in ArgvSet : Fresh(a)
    /\ clock = 1
    /\ roots = {}
    /\ alias \in InitialAliases
    /\ runNo = 1
    /\ prev = NoPrev

-----------------------------------------------------------------------------
(* main *)

\* sys.exit(code) and an uncaught exception both end the process
Exit(code, at) ==
    /\ pc' = at
    /\ exit_status' = code

ModulesValidM(n) == n >= 0

\* the test "args.modules < 1" of main, negated
ModulesValid(n) == n >= 1

\* main accepts the command line: both lists parse, neither is empty, and the
\* module count is at least 1
ArgsAccepted(a) ==
    /\ ListIsValid(a.widths)
    /\ ListIsValid(a.pipe_stages)
    /\ ParseList(a.widths) # <<>>
    /\ ParseList(a.pipe_stages) # <<>>
    /\ ModulesValid(a.modules)

MainReject ==
    /\ pc = "main"
    /\ ~ArgsAccepted(argv)
    /\ Exit(1, "exit")
    /\ UNCHANGED <<suiteVars, config, moduleVars, config_runs, toolchain_calls,
                   outVars, fsVars, runVars>>

\* TestSuite.__init__: the output root is named after the current second and
\* is created if absent
MainAccept ==
    /\ pc = "main"
    /\ ArgsAccepted(argv)
    /\ log_dir' = clock
    /\ roots' = roots \cup {clock}
    /\ widths' = ParseList(argv.widths)
    /\ pipe_stages' = ParseList(argv.pipe_stages)
    /\ total_modules' = argv.modules
    /\ config_results' = <<>>
    /\ total_tests' = 0 /\ total_passed' = 0 /\ total_failed' = 0
    /\ wi' = 1 /\ pj' = 1
    /\ pc' = "suite_loop"
    /\ UNCHANGED <<exit_status, config, moduleVars, config_runs, toolchain_calls,
                   outVars, clock, alias, runVars>>

-----------------------------------------------------------------------------
(* TestSuite.run: the two nested for loops *)

SuiteHasNext == wi <= Len(widths) /\ pj <= Len(pipe_stages)

NextIndicesM(i, j) == IF i < Len(widths) THEN <<i + 1, j>> ELSE <<1, j + 1>>

\* the positions after one more pass of the inner loop over pipe_stages
NextIndices(i, j) == IF j < Len(pipe_stages) THEN <<i, j + 1>> ELSE <<i + 1, 1>>

\* ConfigurationTest.__init__ and the head of ConfigurationTest.run
ConfigInit ==
    /\ pc = "suite_loop"
    /\ SuiteHasNext
    /\ config' = [width |-> widths[wi], pipe_stages |-> pipe_stages[pj],
                  total_modules |-> total_modules, next_id |-> 1,
                  passed |-> 0, failed |-> 0, module_tests |-> <<>>]
    /\ config_runs' = Append(config_runs,
                             [width |-> widths[wi], pipe_stages |-> pipe_stages[pj],
                              finished |-> FALSE])
    /\ pc' = "config_loop"
    /\ UNCHANGED <<exit_status, suiteVars, moduleVars, toolchain_calls,
                   outVars, fsVars, runVars>>

-----------------------------------------------------------------------------
(* ConfigurationTest.run: the loop over module ids, and ModuleTest.run_test *)

ConfigHasNextM(c) == c.next_id <= c.total_modules /\ c.failed = 0

\* range(1, total_modules + 1) has another id
ConfigHasNext(c) == c.next_id <= c.total_modules

CurrentTest == config.module_tests[Len(config.module_tests)]

SetStatus(c, st) ==
    [c EXCEPT !.module_tests[Len(c.module_tests)].status = st]

\* ModuleTest.__init__, module_tests.append(test) and the head of run_test
ModuleInit ==
    /\ pc = "config_loop"
    /\ ConfigHasNext(config)
    /\ config' = [config EXCEPT
                    !.module_tests = Append(@, [module_id |-> config.next_id,
                                                status |-> "UNKNOWN"]),
                    !.next_id = @ + 1]
    /\ pc' = "compile"
    /\ UNCHANGED <<exit_status, suiteVars, moduleVars, config_runs, toolchain_calls,
                   outVars, fsVars, runVars>>

CompileFailedM(rc) == FALSE

\* compile_result.returncode != 0
CompileFailed(rc) == rc # 0

\* the log is opened for writing (truncated) and verilator runs to completion
Compile ==
    /\ pc = "compile"
    /\ \E rc \in ReturnCodes, out \in CompileOutputs :
        /\ compile_rc' = rc
        /\ log' = out
        /\ IF CompileFailed(rc)
           THEN /\ config' = SetStatus(config, "COMPILE FAILED")
                /\ success' = FALSE
                /\ pc' = "tally"
           ELSE /\ pc' = "execute"
                /\ UNCHANGED <<config, success>>
    /\ steps' = Append(steps, "compile")
    /\ toolchain_calls' = toolchain_calls + 1
    /\ UNCHANGED <<exit_status, suiteVars, sim_rc, config_runs,
                   outVars, fsVars, runVars>>

\* subprocess.run raises when verilator cannot be launched; nothing catches it
CompileLaunchError ==
    /\ pc = "compile"
    /\ steps' = Append(steps, "compile")
    /\ Exit(1, "crashed")
    /\ UNCHANGED <<suiteVars, config, compile_rc, sim_rc, success, log, config_runs,
                   toolchain_calls, outVars, fsVars, runVars>>

\* the compiled simulation runs to completion, writing to the same open log
Execute ==
    /\ pc = "execute"
    /\ \E rc \in ReturnCodes, out \in ExecOutputs :
        /\ sim_rc' = rc
        /\ log' = log \o out
    /\ steps' = Append(steps, "execute")
    /\ toolchain_calls' = toolchain_calls + 1
    /\ pc' = "classify"
    /\ UNCHANGED <<exit_status, suiteVars, config, compile_rc, success, config_runs,
                   outVars, fsVars, runVars>>

\* subprocess.run raises when the compiled artifact cannot be launched
ExecuteLaunchError ==
    /\ pc = "execute"
    /\ steps' = Append(steps, "execute")
    /\ Exit(1, "crashed")
    /\ UNCHANGED <<suiteVars, config, compile_rc, sim_rc, success, log, config_runs,
                   toolchain_calls, outVars, fsVars, runVars>>

ClassifyLogM(content) ==
    IF Len(content) >= Len(Marker) /\ SubSeq(content, 1, Len(Marker)) = Marker
    THEN "PASSED" ELSE "FAILED"

\* "TEST PASSED" in log_content
ClassifyLog(content) == IF Contains(content, Marker) THEN "PASSED" ELSE "FAILED"

\* the log is read back after both processes have finished
Classify ==
    /\ pc = "classify"
    /\ config' = SetStatus(config, ClassifyLog(log))
    /\ success' = (ClassifyLog(log) = "PASSED")
    /\ pc' = "tally"
    /\ UNCHANGED <<exit_status, suiteVars, steps, compile_rc, sim_rc, log, config_runs,
                   toolchain_calls, outVars, fsVars, runVars>>

CountM(c, ok) ==
    IF ok THEN [c EXCEPT !.passed = @ + 1]
    ELSE IF CurrentTest.status = "COMPILE FAILED" THEN c
    ELSE [c EXCEPT !.failed = @ + 1]

\* if success: passed += 1, else: failed += 1
Count(c, ok) ==
    IF ok THEN [c EXCEPT !.passed = @ + 1] ELSE [c EXCEPT !.failed = @ + 1]

\* run_test has returned to the loop of ConfigurationTest.run; its locals
\* (the exit codes, the log content it read) are gone after the count
Tally ==
    /\ pc = "tally"
    /\ config' = Count(config, success)
    /\ steps' = <<>>
    /\ compile_rc' = 0 /\ sim_rc' = 0 /\ success' = FALSE
    /\ log' = <<>>
    /\ pc' = "config_loop"
    /\ UNCHANGED <<exit_status, suiteVars, config_runs, toolchain_calls,
                   outVars, fsVars, runVars>>

\* f"{log_dir}/w{width}_p{pipe_stages}", below the output root
ConfigDir(width, pipe) ==
    <<"w">> \o IntToStr(width) \o <<"_", "p">> \o IntToStr(pipe)

\* the loop is over: summary, report.html, return
ConfigReturn ==
    /\ pc = "config_loop"
    /\ ~ConfigHasNext(config)
    /\ reports' = reports \cup {ConfigDir(config.width, config.pipe_stages)}
    /\ config_runs' = [config_runs EXCEPT ![Len(config_runs)].finished = TRUE]
    /\ returned' = [passed |-> returned.passed + config.passed,
                     failed |-> returned.failed + config.failed]
    /\ pc' = "config_return"
    /\ UNCHANGED <<exit_status, suiteVars, config, moduleVars, toolchain_calls,
                   dashboard, warned, fsVars, runVars>>

-----------------------------------------------------------------------------
(* TestSuite.run: storing a configuration's result, dashboard, alias *)

\* config_results[config_key] = {...}: an existing entry under the key is replaced
StoreUnder(results, key, entry) ==
    [k \in (DOMAIN results) \cup {key} |-> IF k = key THEN entry ELSE results[k]]

AddTestsM(n, c) == n + c.passed

\* self.total_tests += self.total_modules
AddTests(n, c) == n + total_modules

\* config.run() has returned (passed, failed, duration)
StoreResult ==
    /\ pc = "config_return"
    /\ config_results' =
         StoreUnder(config_results, ConfigKey(config.width, config.pipe_stages),
                    [width |-> config.width, pipe_stages |-> config.pipe_stages,
                     passed |-> config.passed, failed |-> config.failed])
    /\ total_tests' = AddTests(total_tests, config)
    /\ total_passed' = total_passed + config.passed
    /\ total_failed' = total_failed + config.failed
    /\ wi' = NextIndices(wi, pj)[1]
    /\ pj' = NextIndices(wi, pj)[2]
    /\ pc' = "suite_loop"
    /\ UNCHANGED <<exit_status, widths, pipe_stages, total_modules, log_dir, config,
                   moduleVars, config_runs, toolchain_calls, outVars, fsVars, runVars>>

NotApplicable == <<"N", "/", "A">>

\* the text of one heat map cell of a stored configuration result
HeatCell(passed, failed) ==
    LET total == passed + failed
        pass_rate == IF total > 0 THEN (passed * 100) \div total ELSE 0
    IN  IntToStr(pass_rate) \o <<"%">>

\* the heat map rows: one row per width, one cell per pipeline depth
HeatMap(results) ==
    [i \in 1..Len(widths) |->
        [j \in 1..Len(pipe_stages) |->
            LET key == ConfigKey(widths[i], pipe_stages[j])
            IN  IF key \in DOMAIN results
                THEN HeatCell(results[key].passed, results[key].failed)
                ELSE NotApplicable]]

\* both loops are over: final summary and dashboard.html
GenerateDashboard ==
    /\ pc = "suite_loop"
    /\ ~SuiteHasNext
    /\ dashboard' = HeatMap(config_results)
    /\ pc' = "alias"
    /\ UNCHANGED <<exit_status, suiteVars, config, moduleVars, config_runs,
                   toolchain_calls, reports, warned, returned, fsVars, runVars>>

\* os.path.exists follows a symbolic link
PathExists(a) ==
    \/ a.kind \in {"file", "dir"}
    \/ a.kind = "link" /\ a.target \in roots

\* os.remove raises on a directory; os.symlink raises when the name is taken
AliasUpdateFails(a) ==
    \/ a.kind = "dir"
    \/ a.kind = "link" /\ ~PathExists(a)

UpdateAliasM ==
    /\ pc = "alias"
    /\ IF AliasUpdateFails(alias)
       THEN /\ Exit(1, "crashed")
            /\ UNCHANGED alias
       ELSE /\ alias' = [kind |-> "link", target |-> log_dir]
            /\ Exit(0, "done")
    /\ UNCHANGED <<suiteVars, config, moduleVars, config_runs, toolchain_calls,
                   reports, dashboard, warned, returned, clock, roots, runVars>>

\* the try block around os.remove and os.symlink, then the closing messages
UpdateAlias ==
    /\ pc = "alias"
    /\ IF AliasUpdateFails(alias)
       THEN /\ warned' = TRUE
            /\ UNCHANGED alias
       ELSE /\ alias' = [kind |-> "link", target |-> log_dir]
            /\ UNCHANGED warned
    /\ Exit(0, "done")
    /\ UNCHANGED <<suiteVars, config, moduleVars, config_runs, toolchain_calls,
                   reports, dashboard, returned, clock, roots, runVars>>

-----------------------------------------------------------------------------
(* The script is started again after it has ended *)

\* the command lines of the two-invocation scenario
RerunArgv ==
    [widths : {<<(<<"8">>)>>, <<(<<"x">>)>>}, pipe_stages : {<<(<<"2">>)>>}, modules : {1}]

Ended == pc \in {"done", "exit", "crashed"}

\* the next invocation starts in the same second or a later one
Restart ==
    /\ Ended
    /\ runNo < MaxRuns
    /\ runNo' = runNo + 1
    /\ prev' = [log_dir |-> log_dir, pc |-> pc]
    /\ \E a \in RerunArgv :
        /\ argv' = a
        /\ pc' = "main"
        /\ exit_status' = 0 - 1
        /\ widths' = <<>> /\ pipe_stages' = <<>> /\ total_modules' = 0
        /\ log_dir' = 0
        /\ config_results' = <<>>
        /\ total_tests' = 0 /\ total_passed' = 0 /\ total_failed' = 0
        /\ wi' = 1 /\ pj' = 1
        /\ config' = NoConfig
        /\ steps' = <<>> /\ compile_rc' = 0 /\ sim_rc' = 0 /\ success' = FALSE
        /\ log' = <<>>
        /\ config_runs' = <<>>
        /\ toolchain_calls' = 0
        /\ reports' = {} /\ dashboard' = NoDashboard /\ warned' = FALSE
        /\ returned' = [passed |-> 0, failed |-> 0]
    /\ clock' \in {clock, clock + 1}
    /\ UNCHANGED <<roots, alias>>

Next ==
    \/ MainReject
    \/ MainAccept
    \/ ConfigInit
    \/ ModuleInit
    \/ Compile
    \/ CompileLaunchError
    \/ Execute
    \/ ExecuteLaunchError
    \/ Classify
    \/ Tally
    \/ ConfigReturn
    \/ StoreResult
    \/ GenerateDashboard
    \/ UpdateAlias

\* one invocation of the script
Spec == Init /\ [][Next]_vars

InitRerun ==
    /\ \E a \in RerunArgv : Fresh(a)
    /\ clock = 1
    /\ roots = {}
    /\ alias \in InitialAliases
    /\ runNo = 1
    /\ prev = NoPrev

NextRerun == Next \/ Restart

\* the script invoked up to MaxRuns times in the same working directory
SpecRerun == InitRerun /\ [][NextRerun]_vars

\* a TestSuite whose loops are over, holding one configuration's result
InitDash ==
    /\ \E p \in 0..MaxCount, f \in 0..MaxCount :
        /\ total_modules = p + f
        /\ config_results =
             StoreUnder(<<>>, ConfigKey(8, 2),
                        [width |-> 8, pipe_stages |-> 2, passed |-> p, failed |-> f])
        /\ total_tests = p + f /\ total_passed = p /\ total_failed = f
        /\ returned = [passed |-> p, failed |-> f]
    /\ pc = "suite_loop"
    /\ argv = [widths |-> <<(<<"8">>)>>, pipe_stages |-> <<(<<"2">>)>>, modules |-> 0]
    /\ exit_status = 0 - 1
    /\ widths = <<8>> /\ pipe_stages = <<2>>
    /\ log_dir = 1
    /\ wi = 2 /\ pj = 1
    /\ config = NoConfig
    /\ steps = <<>> /\ compile_rc = 0 /\ sim_rc = 0 /\ success = FALSE
    /\ log = <<>>
    /\ config_runs = <<[width |-> 8, pipe_stages |-> 2, finished |-> TRUE]>>
    /\ toolchain_calls = 0
    /\ reports = {ConfigDir(8, 2)} /\ dashboard = NoDashboard /\ warned = FALSE
    /\ clock = 1
    /\ roots = {1}
    /\ alias \in InitialAliases
    /\ runNo = 1
    /\ prev = NoPrev

NextDash == GenerateDashboard \/ UpdateAlias

\* the dashboard of a suite whose configuration counted p passed and f failed
SpecDash == InitDash /\ [][NextDash]_vars

-----------------------------------------------------------------------------
(* Properties *)

Terminal == {"PASSED", "FAILED", "COMPILE FAILED"}

CountStatus(tests, S) == Cardinality({i \in 1..Len(tests) : tests[i].status \in S})

RunTestCompleted == pc = "tally"

ConfigRunReturned == pc = "config_return"

SuiteFinished == pc = "done"

\* C1: when ConfigurationTest.run returns, passed + failed = total_modules;
\* passed counts the PASSED modules, failed counts the FAILED and the
\* COMPILE FAILED ones, and no module is left out of both.
C1_CountsAddUp ==
    ConfigRunReturned =>
        /\ config.passed + config.failed = config.total_modules
        /\ config.passed = CountStatus(config.module_tests, {"PASSED"})
        /\ config.failed = CountStatus(config.module_tests, {"FAILED", "COMPILE FAILED"})

C1_Witness ==
    /\ ConfigRunReturned
    /\ CountStatus(config.module_tests, {"COMPILE FAILED"}) = 1
    /\ CountStatus(config.module_tests, {"PASSED"}) = 1

\* C2: when TestSuite.run finishes, total_tests is the sum of passed + failed
\* over the configuration runs executed, which is total_modules x len(widths)
\* x len(pipe_stages); total_passed and total_failed are the sums of the
\* returned passed and failed counts.
C2_TotalsAreSums ==
    SuiteFinished =>
        /\ total_tests = returned.passed + returned.failed
        /\ total_tests = total_modules * Len(widths) * Len(pipe_stages)
        /\ total_passed = returned.passed
        /\ total_failed = returned.failed

C2_Witness ==
    /\ SuiteFinished
    /\ Len(widths) = 2 /\ Len(pipe_stages) = 2 /\ total_modules = 2
    /\ total_passed = 3 /\ total_failed = 5

RECURSIVE SumOver(_, _)
SumOver(results, keys) ==
    IF keys = {} THEN [passed |-> 0, failed |-> 0]
    ELSE LET k == CHOOSE x \in keys : TRUE
             rest == SumOver(results, keys \ {k})
         IN  [passed |-> rest.passed + results[k].passed,
              failed |-> rest.failed + results[k].failed]

StoredSums == SumOver(config_results, DOMAIN config_results)

\* C3: when TestSuite.run finishes, for any input lists (repeated values
\* included) every requested (width, pipeline_depth) pair has its entry in
\* config_results, and total_tests, total_passed, total_failed are the sums of
\* passed + failed, passed, failed over the entries stored there.
C3_TotalsMatchStoredEntries ==
    SuiteFinished =>
        /\ \A i \in 1..Len(widths), j \in 1..Len(pipe_stages) :
              ConfigKey(widths[i], pipe_stages[j]) \in DOMAIN config_results
        /\ total_tests = StoredSums.passed + StoredSums.failed
        /\ total_passed = StoredSums.passed
        /\ total_failed = StoredSums.failed

\* C4: a completed run_test has status PASSED, FAILED or COMPILE FAILED, never
\* UNKNOWN; COMPILE FAILED means compile exited non-zero and only compile was
\* attempted; PASSED or FAILED means compile exited zero and compile then
\* execute were each attempted once.
C4_StatusMatchesSteps ==
    /\ RunTestCompleted =>
        /\ CurrentTest.status \in Terminal
        /\ CurrentTest.status = "COMPILE FAILED" =>
              steps = <<"compile">> /\ compile_rc # 0
        /\ CurrentTest.status \in {"PASSED", "FAILED"} =>
              steps = <<"compile", "execute">> /\ compile_rc = 0
        /\ (compile_rc = 0) <=> ("execute" \in {steps[i] : i \in 1..Len(steps)})
    /\ \A i \in 1..Len(config.module_tests) :
          config.module_tests[i].status = "UNKNOWN" =>
              i = Len(config.module_tests) /\ pc \in {"compile", "execute", "classify", "crashed"}

C4_Witness ==
    /\ RunTestCompleted
    /\ CurrentTest.status = "COMPILE FAILED"
    /\ Len(config.module_tests) = 2
    /\ config.module_tests[1].status = "PASSED"

\* the words TEST PASSED occur next to each other in the log
HasMarkerText(content) ==
    \E i \in 1..(Len(content) - 1) : content[i] = "TEST" /\ content[i + 1] = "PASSED"

\* C5: when compile exits zero, the module is PASSED exactly when the log read
\* back after both steps holds the text TEST PASSED, and FAILED otherwise,
\* whatever the exit status of the execute step.
C5_MarkerDecides ==
    (RunTestCompleted /\ compile_rc = 0) =>
        /\ HasMarkerText(log) => CurrentTest.status = "PASSED"
        /\ ~HasMarkerText(log) => CurrentTest.status = "FAILED"

C5_Witness ==
    /\ RunTestCompleted
    /\ compile_rc = 0 /\ sim_rc # 0
    /\ CurrentTest.status = "PASSED"
    /\ log = <<"TEST", "TEST", "PASSED">>

\* C6: ConfigurationTest.run runs modules 1..total_modules, each once, in
\* ascending order, whatever the earlier outcomes: module_tests[i] is module i,
\* only the last one can still be running, and run returns only when all
\* total_modules modules have a terminal status.
C6_AllModulesInOrder ==
    /\ \A i \in 1..Len(config.module_tests) :
          /\ config.module_tests[i].module_id = i
          /\ i < Len(config.module_tests) => config.module_tests[i].status \in Terminal
    /\ Len(config.module_tests) <= config.total_modules
    /\ ConfigRunReturned =>
          /\ Len(config.module_tests) = config.total_modules
          /\ \A i \in 1..Len(config.module_tests) :
                config.module_tests[i].status \in Terminal

C6_Witness ==
    /\ ConfigRunReturned
    /\ Len(config.module_tests) = 2
    /\ config.module_tests[1].status = "FAILED"
    /\ config.module_tests[2].status = "PASSED"

\* an entry that is not a run of decimal digits
NonIntegerEntry(tok) == tok = <<>> \/ \E i \in 1..Len(tok) : tok[i] \notin DigitChars

InvalidInput(a) ==
    \/ \E i \in 1..Len(a.widths) : NonIntegerEntry(a.widths[i])
    \/ \E i \in 1..Len(a.pipe_stages) : NonIntegerEntry(a.pipe_stages[i])
    \/ a.modules < 1

\* C7: on invalid input (a non-integer entry, an empty list, a module count
\* below 1) main exits non-zero before TestSuite is constructed: no external
\* process is run, no output root is created, no report, dashboard or alias
\* is written.
C7_InvalidInputRejected ==
    [][(pc = "main" /\ InvalidInput(argv)) =>
          /\ pc' = "exit"
          /\ exit_status' # 0
          /\ toolchain_calls' = 0
          /\ log_dir' = 0
          /\ roots' = roots
          /\ alias' = alias
          /\ reports' = {}
          /\ dashboard' = NoDashboard]_vars

C7_Witness ==
    /\ pc = "exit"
    /\ argv.widths = <<(<<"8">>), (<<"x">>)>>
    /\ argv.modules >= 1
    /\ toolchain_calls = 0
    /\ roots = {}

\* C8: two invocations in succession that both complete produce two distinct
\* output roots, and after the second the alias points at the second root.
C8_SecondRunOwnsAlias ==
    (runNo = 2 /\ SuiteFinished /\ prev.pc = "done") =>
        /\ log_dir # prev.log_dir
        /\ alias = [kind |-> "link", target |-> log_dir]

\* floor(100 * passed / (passed + failed)), by its defining inequalities
IsFloorRate(r, passed, failed) ==
    /\ r * (passed + failed) <= 100 * passed
    /\ 100 * passed < (r + 1) * (passed + failed)

\* C9: a heat map cell shows floor(100 * passed / (passed + failed)) when
\* passed + failed is nonzero and the not-applicable text when it is zero.
C9_HeatCellRate ==
    dashboard # NoDashboard =>
        \A i \in 1..Len(widths), j \in 1..Len(pipe_stages) :
            LET r == config_results[ConfigKey(widths[i], pipe_stages[j])]
            IN  IF r.passed + r.failed = 0
                THEN dashboard[i][j] = NotApplicable
                ELSE \E n \in 0..100 :
                        /\ IsFloorRate(n, r.passed, r.failed)
                        /\ dashboard[i][j] = IntToStr(n) \o <<"%">>

\* the pair the k-th configuration run is for: widths outside, pipe_stages inside
ProductAt(k) ==
    [width |-> widths[((k - 1) \div Len(pipe_stages)) + 1],
     pipe_stages |-> pipe_stages[((k - 1) % Len(pipe_stages)) + 1]]

\* C10: the configuration runs are the cartesian product widths x pipe_stages
\* in order (widths outside, pipe_stages inside, repeats kept), one run each;
\* a run starts only after the one before it has finished, and at the end
\* there are len(widths) x len(pipe_stages) of them.
C10_ProductOrder ==
    /\ \A k \in 1..Len(config_runs) :
          /\ config_runs[k].width = ProductAt(k).width
          /\ config_runs[k].pipe_stages = ProductAt(k).pipe_stages
          /\ k < Len(config_runs) => config_runs[k].finished
    /\ SuiteFinished =>
          /\ Len(config_runs) = Len(widths) * Len(pipe_stages)
          /\ \A k \in 1..Len(config_runs) : config_runs[k].finished

C10_Witness ==
    /\ SuiteFinished
    /\ widths = <<8, 8>>
    /\ pipe_stages = <<2, 3>>
    /\ Len(config_runs) = 4

\* C11: a failed alias update is not fatal.  The alias step comes only after
\* every configuration has run and the dashboard is written; when it leaves
\* latest_results not pointing at this run's root it prints the warning and
\* leaves the entry as it was; either way run completes with exit status 0 and
\* total_tests, total_passed, total_failed and config_results as they were;
\* the warning is printed nowhere else.
C11_AliasFailureNonFatal ==
    [][/\ (pc = "alias" /\ pc' # "alias") =>
            /\ dashboard # NoDashboard
            /\ Len(config_runs) = Len(widths) * Len(pipe_stages)
            /\ \A k \in 1..Len(config_runs) : config_runs[k].finished
            /\ pc' = "done"
            /\ exit_status' = 0
            /\ total_tests' = total_tests
            /\ total_passed' = total_passed
            /\ total_failed' = total_failed
            /\ config_results' = config_results
            /\ dashboard' = dashboard
            /\ alias' # [kind |-> "link", target |-> log_dir] =>
                   warned' /\ alias' = alias
            /\ alias' = [kind |-> "link", target |-> log_dir] => ~warned'
       /\ (warned' /\ ~warned) => pc = "alias"]_vars

C11_Witness ==
    /\ SuiteFinished
    /\ warned
    /\ exit_status = 0
    /\ alias.kind = "dir"
    /\ total_passed > 0 /\ total_failed > 0
    /\ Len(config_runs) = 4

====
